---- MODULE Spec2Model ----
(***************************************************************************)
(* A model of gmail-cli: the OAuth2 login and token refresh of auth.rs,    *)
(* get_client of main.rs, and the label and message operations of api.rs.  *)
(*                                                                         *)
(* Three state machines share the module, each with its own               *)
(* specification:                                                          *)
(*   Spec        one CLI invocation after another: login, or get_client    *)
(*               followed by the command's API calls                       *)
(*   LabelSpec   the label mutations of api::Client against a remote       *)
(*               label namespace and one message                           *)
(*   MessageSpec the pure lookups of api::Message                          *)
(*                                                                         *)
(* Rust's Option<T> is modelled as a set with at most one element.         *)
(* Strings whose characters matter (label and header names) are sequences  *)
(* of one-character strings; opaque strings (tokens, codes) are atoms.     *)
(***************************************************************************)
EXTENDS Integers, Sequences, FiniteSets, TLC

VARIABLES
    \* ---- Spec: authentication and token lifecycle
    pc,             \* position of the running CLI invocation
    tokens_file,    \* Option<Tokens>: what config::load_tokens would return
    old_tokens,     \* history: tokens_file when the invocation started
    csrf_token,     \* Option: the CSRF state generated for this login
    listener,       \* "none" | "listening" | "dropped"
    accepted,       \* connections accepted on the listener in this login
    callback,       \* history: Option<request> read from the connection
    html_sent,      \* the success page was written to the connection
    code,           \* Option<AuthorizationCode> returned by wait_for_callback
    exchange_calls, \* exchange_code requests sent in this invocation
    probes,         \* outcomes of the probe calls list_messages(None,"INBOX",1)
    refresh_calls,  \* exchange_refresh_token requests sent
    refresh_arg,    \* history: Option, the refresh token passed to refresh_token
    token_resp,     \* history: Option, the last token endpoint response
    client,         \* Option<access token> of the api::Client handed back
    api_calls,      \* API calls the command made with that client
    result,         \* Option<result> of login / get_client / the command
    browser,        \* history: Option, how the two browser launchers fared
    cmd,            \* "none" | "login" | "command": what this invocation runs
    cmds,           \* invocations finished so far
    \* ---- LabelSpec: api::Client label operations
    lpc,            \* position inside the running operation
    op,             \* the operation and its arguments
    remote_labels,  \* the remote label listing, in listing order
    msg_labels,     \* label ids on the message
    label_id,       \* Option: the id the operation resolved
    pending,        \* modify requests still to send
    requests,       \* history: requests sent by the running operation
    lresult,        \* Option<result> of the operation
    ops,            \* operations finished so far
    old_remote,     \* history: remote_labels when the operation started
    old_msg,        \* history: msg_labels when the operation started
    called,         \* history: custom names of the add_label calls returned
    resolved,       \* history: label ids those calls resolved
    \* ---- MessageSpec: api::Message lookups
    message,        \* the message looked at
    lookup,         \* Option: the name looked up
    found,          \* Option<Option<value>>: what get_header returned
    body_text,      \* Option: what get_body_text returned, and the parts it read
    \* ---- NormalizeSpec: main.rs normalize_label
    typed,          \* Option: the label the user typed
    normalized      \* Option: what normalize_label returned for it

authVars == <<pc, tokens_file, old_tokens, csrf_token, listener, accepted,
              callback, html_sent, code, exchange_calls, probes,
              refresh_calls, refresh_arg, token_resp, client, api_calls,
              result, browser, cmd, cmds>>
labelVars == <<lpc, op, remote_labels, msg_labels, label_id, pending,
               requests, lresult, ops, old_remote, old_msg, called, resolved>>
msgVars == <<message, lookup, found, body_text, typed, normalized>>
vars == <<authVars, labelVars, msgVars>>

None == {}
Some(x) == {x}
Unwrap(o) == CHOOSE x \in o : TRUE

(***************************************************************************)
(* Bounds                                                                  *)
(***************************************************************************)
MaxCommands == 3    \* CLI invocations in one behaviour
MaxPairs == 3       \* query pairs in the callback's request target
MaxApiCalls == 2    \* API calls a command makes after get_client
MaxLabels == 2      \* user labels in the remote listing at the start
MaxHeaders == 3     \* headers in a message's header list
MaxParts == 3       \* parts in a message's body tree, at all depths together
MaxTyped == 2       \* characters in a custom label a user types
MaxCalls == 2       \* label calls one after the other on one Client

(***************************************************************************)
(* Values the environment supplies                                         *)
(***************************************************************************)
QueryValues == {"v1", "v2"}         \* values a query pair can carry
CsrfValues == QueryValues           \* CsrfToken::new_random
AccessValues == {"a1", "a2"}
RefreshValues == {"r1", "r2"}
QueryKeys == {"code", "state", "scope"}

Ok(v) == [ok |-> TRUE, err |-> "", val |-> v]
Err(e) == [ok |-> FALSE, err |-> e, val |-> None]

Tokens(a, r) == [access_token |-> a, refresh_token |-> r]

SeqsUpTo(S, n) == UNION {[1..k -> S] : k \in 0..n}

\* A callback connection: the request line has a request target or not
\* (split_whitespace().nth(1)), and the target's query is a list of pairs.
QueryPair == [key : QueryKeys, value : QueryValues]
Requests == [target : {FALSE}, pairs : {<<>>}]
            \cup [target : {TRUE}, pairs : SeqsUpTo(QueryPair, MaxPairs)]

\* The token endpoint's answer: an error, or an access token with an
\* optional refresh token.
TokenResponses ==
    [ok : {FALSE}, access_token : {""}, refresh_token : {None}]
    \cup [ok : {TRUE}, access_token : AccessValues,
          refresh_token : {None} \cup {Some(r) : r \in RefreshValues}]

(***************************************************************************)
(* config.rs is not among the sources: the credential store is modelled    *)
(* from its contract (load_tokens() -> TokenPair | NotFound,               *)
(* save_tokens(TokenPair)).  A save either persists the pair or fails and  *)
(* leaves the file as it was.                                              *)
(***************************************************************************)
load_tokens(file) == file
save_tokens(file, tokens, io_ok) == IF io_ok THEN Some(tokens) ELSE file

(***************************************************************************)
(* auth.rs                                                                 *)
(***************************************************************************)
\* url.query_pairs().find(|(key, _)| key == k).map(|(_, value)| value)
FindPair(pairs, k) ==
    LET hits == {i \in 1..Len(pairs) : pairs[i].key = k}
    IN  IF hits = {} THEN None
        ELSE Some(pairs[CHOOSE i \in hits : \A j \in hits : i <= j].value)

StateMatchesAlways(state, expected) == TRUE
\* state.secret() != expected_csrf.secret() decides the bail
StateMatches(state, expected) == state = expected

ParseCallbackEarlyReply(req, expected, write_ok) ==
    LET c == FindPair(req.pairs, "code")
        s == FindPair(req.pairs, "state")
    IN  IF ~req.target THEN [res |-> Err("Invalid request"), sent |-> FALSE]
        ELSE IF c = None THEN [res |-> Err("No code in callback"), sent |-> FALSE]
        ELSE IF ~write_ok THEN [res |-> Err("write failed"), sent |-> FALSE]
        ELSE IF s = None THEN [res |-> Err("No state in callback"), sent |-> TRUE]
        ELSE IF ~StateMatches(Unwrap(s), expected)
             THEN [res |-> Err("CSRF token mismatch"), sent |-> TRUE]
        ELSE [res |-> Ok(Unwrap(c)), sent |-> TRUE]
\* wait_for_callback after the accept: the code it returns or the error,
\* and whether the success page was written.
ParseCallback(req, expected, write_ok) ==
    LET c == FindPair(req.pairs, "code")
        s == FindPair(req.pairs, "state")
    IN  IF ~req.target THEN [res |-> Err("Invalid request"), sent |-> FALSE]
        ELSE IF c = None THEN [res |-> Err("No code in callback"), sent |-> FALSE]
        ELSE IF s = None THEN [res |-> Err("No state in callback"), sent |-> FALSE]
        ELSE IF ~StateMatches(Unwrap(s), expected)
             THEN [res |-> Err("CSRF token mismatch"), sent |-> FALSE]
        ELSE IF ~write_ok THEN [res |-> Err("write failed"), sent |-> FALSE]
        ELSE [res |-> Ok(Unwrap(c)), sent |-> TRUE]

BrowserOpenedNoFallback(vivaldi_ok, open_ok) == vivaldi_ok
\* Command::new("vivaldi").spawn().is_err() => open::that(&url)?
BrowserOpened(vivaldi_ok, open_ok) == vivaldi_ok \/ open_ok

LoginTokensLenient(resp) ==
    Ok(Tokens(resp.access_token,
              IF resp.refresh_token = None THEN ""
              ELSE Unwrap(resp.refresh_token)))
\* the Tokens login builds from the exchange response
LoginTokens(resp) ==
    IF resp.refresh_token = None THEN Err("No refresh token received")
    ELSE Ok(Tokens(resp.access_token, Unwrap(resp.refresh_token)))

RefreshTokensDropOld(resp, refresh) ==
    Tokens(resp.access_token,
           IF resp.refresh_token = None THEN ""
           ELSE Unwrap(resp.refresh_token))
\* the Tokens refresh_token builds from the refresh response
RefreshTokens(resp, refresh) ==
    Tokens(resp.access_token,
           IF resp.refresh_token = None THEN refresh
           ELSE Unwrap(resp.refresh_token))

ResetInvocation ==
    /\ old_tokens' = tokens_file
    /\ accepted' = 0
    /\ callback' = None
    /\ html_sent' = FALSE
    /\ code' = None
    /\ exchange_calls' = 0
    /\ probes' = <<>>
    /\ refresh_calls' = 0
    /\ refresh_arg' = None
    /\ token_resp' = None
    /\ client' = None
    /\ api_calls' = 0
    /\ browser' = None

\* main: Commands::Login, and login up to the authorization URL
StartLogin ==
    /\ UNCHANGED <<labelVars, msgVars>>
    /\ pc = "idle"
    /\ cmds < MaxCommands
    /\ \E cfg_ok \in BOOLEAN, bind_ok \in BOOLEAN, csrf \in CsrfValues :
        IF ~cfg_ok
        THEN /\ pc' = "done"
             /\ result' = Some(Err("config"))
             /\ listener' = "none"
             /\ csrf_token' = None
        ELSE IF ~bind_ok
        THEN /\ pc' = "done"
             /\ result' = Some(Err("Failed to bind to local port"))
             /\ listener' = "none"
             /\ csrf_token' = None
        ELSE /\ pc' = "open_browser"
             /\ result' = None
             /\ listener' = "listening"
             /\ csrf_token' = Some(csrf)
    /\ UNCHANGED <<tokens_file, old_tokens, accepted, callback, html_sent,
                   code, exchange_calls, probes, refresh_calls, refresh_arg,
                   token_resp, client, api_calls, browser, cmds>>
    /\ cmd' = "login"

\* login: launching the browser
OpenBrowser ==
    /\ UNCHANGED <<labelVars, msgVars>>
    /\ pc = "open_browser"
    /\ \E vivaldi_ok \in BOOLEAN, open_ok \in BOOLEAN :
        /\ browser' = Some([vivaldi |-> vivaldi_ok, open |-> open_ok])
        /\ IF BrowserOpened(vivaldi_ok, open_ok)
           THEN /\ pc' = "wait_for_callback"
                /\ UNCHANGED <<result, listener>>
           ELSE /\ pc' = "done"
                /\ result' = Some(Err("open"))
                /\ listener' = "dropped"
    /\ UNCHANGED <<tokens_file, old_tokens, csrf_token, accepted, callback,
                   html_sent, code, exchange_calls, probes, refresh_calls,
                   refresh_arg, token_resp, client, api_calls, cmd, cmds>>

\* login: wait_for_callback(listener, csrf_token)?
WaitForCallback ==
    /\ UNCHANGED <<labelVars, msgVars>>
    /\ pc = "wait_for_callback"
    /\ listener' = "dropped"
    /\ \E accept_ok \in BOOLEAN, req \in Requests, write_ok \in BOOLEAN :
        IF ~accept_ok
        THEN /\ pc' = "done"
             /\ result' = Some(Err("accept"))
             /\ UNCHANGED <<accepted, callback, html_sent, code>>
        ELSE LET r == ParseCallback(req, Unwrap(csrf_token), write_ok)
             IN  /\ accepted' = accepted + 1
                 /\ callback' = Some(req)
                 /\ html_sent' = r.sent
                 /\ IF r.res.ok
                    THEN /\ code' = Some(r.res.val)
                         /\ pc' = "exchange_code"
                         /\ UNCHANGED result
                    ELSE /\ code' = None
                         /\ pc' = "done"
                         /\ result' = Some(r.res)
    /\ UNCHANGED <<tokens_file, old_tokens, csrf_token, exchange_calls,
                   probes, refresh_calls, refresh_arg, token_resp, client,
                   api_calls, browser, cmd, cmds>>

\* login: the code exchange, the Tokens, save_tokens
ExchangeCode ==
    /\ UNCHANGED <<labelVars, msgVars>>
    /\ pc = "exchange_code"
    /\ exchange_calls' = exchange_calls + 1
    /\ pc' = "done"
    /\ \E resp \in TokenResponses, io_ok \in BOOLEAN :
        /\ token_resp' = Some(resp)
        /\ IF ~resp.ok
           THEN /\ result' = Some(Err("Failed to exchange code for token"))
                /\ UNCHANGED tokens_file
           ELSE LET t == LoginTokens(resp)
                IN  IF ~t.ok
                    THEN /\ result' = Some(t)
                         /\ UNCHANGED tokens_file
                    ELSE /\ tokens_file' = save_tokens(tokens_file, t.val, io_ok)
                         /\ result' = Some(IF io_ok THEN t ELSE Err("save"))
    /\ UNCHANGED <<old_tokens, csrf_token, listener, accepted, callback,
                   html_sent, code, probes, refresh_calls, refresh_arg,
                   client, api_calls, browser, cmd, cmds>>

\* main: any command that starts with get_client().await?
StartCommand ==
    /\ UNCHANGED <<labelVars, msgVars>>
    /\ pc = "idle"
    /\ cmds < MaxCommands
    /\ \E cfg_ok \in BOOLEAN :
        IF ~cfg_ok
        THEN /\ pc' = "done"
             /\ result' = Some(Err("config"))
        ELSE IF load_tokens(tokens_file) = None
        THEN /\ pc' = "done"
             /\ result' = Some(Err("Not logged in. Run 'gmail login' first"))
        ELSE /\ pc' = "probe"
             /\ result' = None
    /\ UNCHANGED <<tokens_file, old_tokens, csrf_token, listener, accepted,
                   callback, html_sent, code, exchange_calls, probes,
                   refresh_calls, refresh_arg, token_resp, client, api_calls,
                   browser, cmds>>
    /\ cmd' = "command"

(***************************************************************************)
(* main.rs: get_client                                                     *)
(***************************************************************************)
NeedsRefreshAlways(probe_ok) == TRUE
\* match client.list_messages(None, "INBOX", 1).await { Ok(_) .. Err(_) .. }
NeedsRefresh(probe_ok) == ~probe_ok

\* get_client: api::Client::new(&tokens.access_token) and the probe
Probe ==
    /\ UNCHANGED <<labelVars, msgVars>>
    /\ pc = "probe"
    /\ \E probe_ok \in BOOLEAN :
        /\ probes' = Append(probes, probe_ok)
        /\ IF NeedsRefresh(probe_ok)
           THEN /\ pc' = "refresh"
                /\ UNCHANGED client
           ELSE /\ pc' = "command"
                /\ client' = Some(Unwrap(load_tokens(tokens_file)).access_token)
    /\ UNCHANGED <<tokens_file, old_tokens, csrf_token, listener, accepted,
                   callback, html_sent, code, exchange_calls, refresh_calls,
                   refresh_arg, token_resp, api_calls, result, browser, cmd, cmds>>

\* get_client: auth::refresh_token(client_id, client_secret,
\* &tokens.refresh_token).await?, then Client::new(&new_tokens.access_token)
Refresh ==
    /\ UNCHANGED <<labelVars, msgVars>>
    /\ pc = "refresh"
    /\ refresh_calls' = refresh_calls + 1
    /\ LET refresh == Unwrap(load_tokens(tokens_file)).refresh_token
       IN  /\ refresh_arg' = Some(refresh)
           /\ \E resp \in TokenResponses, io_ok \in BOOLEAN :
               /\ token_resp' = Some(resp)
               /\ IF ~resp.ok
                  THEN /\ pc' = "done"
                       /\ result' = Some(Err("Failed to refresh token"))
                       /\ UNCHANGED <<tokens_file, client>>
                  ELSE LET t == RefreshTokens(resp, refresh)
                       IN  /\ tokens_file' = save_tokens(tokens_file, t, io_ok)
                           /\ IF io_ok
                              THEN /\ pc' = "command"
                                   /\ client' = Some(t.access_token)
                                   /\ UNCHANGED result
                              ELSE /\ pc' = "done"
                                   /\ result' = Some(Err("save"))
                                   /\ UNCHANGED client
    /\ UNCHANGED <<old_tokens, csrf_token, listener, accepted, callback,
                   html_sent, code, exchange_calls, probes, api_calls,
                   browser, cmd, cmds>>

\* main: one API call of the command, made with the client get_client
\* returned; a failure propagates with `?`
ApiCall ==
    /\ UNCHANGED <<labelVars, msgVars>>
    /\ pc = "command"
    /\ api_calls < MaxApiCalls
    /\ api_calls' = api_calls + 1
    /\ \E call_ok \in BOOLEAN :
        IF call_ok
        THEN UNCHANGED <<pc, result>>
        ELSE /\ pc' = "done"
             /\ result' = Some(Err("HTTP"))
    /\ UNCHANGED <<tokens_file, old_tokens, csrf_token, listener, accepted,
                   callback, html_sent, code, exchange_calls, probes,
                   refresh_calls, refresh_arg, token_resp, client, browser,
                   cmd, cmds>>

\* main: the command returns Ok(())
CommandDone ==
    /\ UNCHANGED <<labelVars, msgVars>>
    /\ pc = "command"
    /\ pc' = "done"
    /\ result' = Some(Ok("unit"))
    /\ UNCHANGED <<tokens_file, old_tokens, csrf_token, listener, accepted,
                   callback, html_sent, code, exchange_calls, probes,
                   refresh_calls, refresh_arg, token_resp, client, api_calls,
                   browser, cmd, cmds>>

\* the process exits and its memory is gone: only the credential store
\* outlives the invocation
Exit ==
    /\ UNCHANGED <<labelVars, msgVars>>
    /\ pc = "done"
    /\ pc' = "idle"
    /\ cmds' = cmds + 1
    /\ ResetInvocation
    /\ csrf_token' = None
    /\ listener' = "none"
    /\ result' = None
    /\ cmd' = "none"
    /\ UNCHANGED tokens_file

AuthInit ==
    /\ pc = "idle"
    /\ tokens_file = None
    /\ old_tokens = None
    /\ csrf_token = None
    /\ listener = "none"
    /\ accepted = 0
    /\ callback = None
    /\ html_sent = FALSE
    /\ code = None
    /\ exchange_calls = 0
    /\ probes = <<>>
    /\ cmd = "none"
    /\ refresh_calls = 0
    /\ refresh_arg = None
    /\ token_resp = None
    /\ client = None
    /\ api_calls = 0
    /\ result = None
    /\ browser = None
    /\ cmds = 0

LabelIdle ==
    /\ lpc = "idle"
    /\ op = None
    /\ remote_labels = <<>>
    /\ msg_labels = {}
    /\ label_id = None
    /\ pending = <<>>
    /\ requests = <<>>
    /\ lresult = None
    /\ ops = 0
    /\ called = {}
    /\ resolved = {}
    /\ old_remote = <<>>
    /\ old_msg = {}

MessageIdle ==
    /\ message = None
    /\ lookup = None
    /\ found = None
    /\ body_text = None
    /\ typed = None
    /\ normalized = None

Init == AuthInit /\ LabelIdle /\ MessageIdle

Next ==
    \/ StartLogin
    \/ OpenBrowser
    \/ WaitForCallback
    \/ ExchangeCode
    \/ StartCommand
    \/ Probe
    \/ Refresh
    \/ ApiCall
    \/ CommandDone
    \/ Exit

Spec == Init /\ [][Next]_vars

(***************************************************************************)
(* Claims about login, refresh_token and get_client, checked under Spec    *)
(***************************************************************************)
CallbackErrors == {"Invalid request", "No code in callback",
                   "No state in callback", "CSRF token mismatch"}
CallbackState == FindPair(Unwrap(callback).pairs, "state")
CallbackCode == FindPair(Unwrap(callback).pairs, "code")

\* C1: the code exchange is requested only after a callback whose state
\* parameter equals the CSRF state generated for this login; after a
\* callback whose state differs or is absent, login has failed with the
\* callback/CSRF error, no exchange was requested and no tokens were saved.
C1_ExchangeOnlyAfterMatchingState ==
    /\ (pc = "exchange_code" \/ exchange_calls > 0) =>
          /\ callback # None
          /\ CallbackState = csrf_token
    /\ (callback # None /\ CallbackState # csrf_token) =>
          /\ pc = "done"
          /\ result \in {Some(Err(e)) : e \in CallbackErrors}
          /\ exchange_calls = 0
          /\ code = None
          /\ tokens_file = old_tokens

\* a callback that carries a code and a state other than the generated one
C1_Witness ==
    /\ callback # None
    /\ CallbackCode # None
    /\ CallbackState # None
    /\ CallbackState # csrf_token
    /\ result = Some(Err("CSRF token mismatch"))

\* C2: get_client refreshes exactly once when the probe fails and never when
\* it succeeds; the client it returns after a refresh carries the refreshed
\* access token, and nothing probes or refreshes again, whatever the later
\* calls of the command do.
C2_OneRefreshPerInvocation ==
    /\ Len(probes) <= 1
    /\ refresh_calls <= 1
    /\ (refresh_calls = 1 \/ pc = "refresh") <=> (probes = <<FALSE>>)
    /\ (pc = "refresh") => refresh_calls = 0
    /\ client # None =>
          /\ Len(probes) = 1
          /\ client = Some(IF probes[1]
                           THEN Unwrap(old_tokens).access_token
                           ELSE Unwrap(token_resp).access_token)
    /\ api_calls > 0 => client # None

\* a later call fails after the one refresh, and no second refresh follows
C2_Witness ==
    /\ pc = "done"
    /\ refresh_calls = 1
    /\ api_calls = 2
    /\ result = Some(Err("HTTP"))

\* C3: the stored refresh token is never empty; a refresh whose response
\* omits a refresh token stores the caller's refresh token with the new
\* access token, and a response that carries one stores that one.
C3_RefreshTokenKept ==
    /\ tokens_file # None => Unwrap(tokens_file).refresh_token \in RefreshValues
    /\ (refresh_calls = 1 /\ client # None) =>
          LET resp == Unwrap(token_resp)
          IN  /\ refresh_arg = Some(Unwrap(old_tokens).refresh_token)
              /\ tokens_file =
                    Some(Tokens(resp.access_token,
                                IF resp.refresh_token = None
                                THEN Unwrap(refresh_arg)
                                ELSE Unwrap(resp.refresh_token)))

\* a successful refresh whose response omits the refresh token and brings a
\* new access token
C3_Witness ==
    /\ refresh_calls = 1
    /\ client # None
    /\ Unwrap(token_resp).refresh_token = None
    /\ Unwrap(token_resp).access_token # Unwrap(old_tokens).access_token
    /\ Unwrap(tokens_file).refresh_token = Unwrap(old_tokens).refresh_token

\* C4: login leaves the stored pair as it was unless it succeeds (a rejected
\* callback, a failed exchange, a response without refresh token); when it
\* returns a pair, the store holds exactly that pair.
C4_LoginSavesIffSucceeds ==
    cmd = "login" =>
        /\ (result = None \/ ~Unwrap(result).ok) => tokens_file = old_tokens
        /\ (result # None /\ Unwrap(result).ok) =>
              /\ pc = "done"
              /\ tokens_file = Some(Unwrap(result).val)
        /\ (token_resp # None /\ Unwrap(token_resp).refresh_token = None) =>
              /\ ~Unwrap(result).ok
              /\ tokens_file = old_tokens

\* a login over an earlier pair fails for want of a refresh token
C4_Witness ==
    /\ cmd = "login"
    /\ old_tokens # None
    /\ tokens_file = old_tokens
    /\ token_resp # None
    /\ Unwrap(token_resp).ok
    /\ result = Some(Err("No refresh token received"))

BothLaunchersFailed ==
    /\ browser # None
    /\ ~Unwrap(browser).vivaldi
    /\ ~Unwrap(browser).open

\* C5 as stated: when the preferred browser and the OS open fallback both
\* fail, login goes on to wait for the callback instead of returning an error.
C5_BrowserFailureNonFatal ==
    BothLaunchersFailed => (pc # "done" \/ accepted > 0)

\* C5 as amended: a failure of the preferred browser alone is not fatal (login
\* goes on to wait for the callback when the OS open fallback succeeds); when
\* both fail, login returns the fallback's error without accepting a
\* connection or requesting an exchange.
C5_OnlyFallbackFailureFatal ==
    browser # None =>
        IF BothLaunchersFailed
        THEN /\ pc = "done"
             /\ result = Some(Err("open"))
             /\ accepted = 0
             /\ exchange_calls = 0
        ELSE /\ result # Some(Err("open"))
             /\ pc = "wait_for_callback" \/ listener = "dropped"

\* the preferred browser failed, the fallback opened, the callback arrived
C5_Witness ==
    /\ browser = Some([vivaldi |-> FALSE, open |-> TRUE])
    /\ accepted = 1
    /\ pc = "exchange_code"

(***************************************************************************)
(* api.rs: strings whose characters matter.  A string is a sequence of     *)
(* characters, a character a one-letter TLA+ string; "eacute" and "Eacute" *)
(* stand for the two non-ASCII letters U+00E9 and U+00C9, and "sharp_s"    *)
(* for U+00DF, whose uppercase is the two letters SS.                      *)
(***************************************************************************)
UpperAscii ==
    <<"A", "B", "C", "D", "E", "F", "G", "H", "I", "J", "K", "L", "M", "N", "O", "P", "Q", "R", "S", "T", "U", "V", "W", "X", "Y", "Z">>
LowerAscii ==
    <<"a", "b", "c", "d", "e", "f", "g", "h", "i", "j", "k", "l", "m", "n", "o", "p", "q", "r", "s", "t", "u", "v", "w", "x", "y", "z">>

\* char::to_lowercase, as str::to_lowercase applies it
to_lowercase(c) ==
    IF \E i \in 1..Len(UpperAscii) : UpperAscii[i] = c
    THEN LowerAscii[CHOOSE i \in 1..Len(UpperAscii) : UpperAscii[i] = c]
    ELSE IF c = "Eacute" THEN "eacute"
    ELSE c

\* u8::to_ascii_lowercase
to_ascii_lowercase(c) ==
    IF \E i \in 1..Len(UpperAscii) : UpperAscii[i] = c
    THEN LowerAscii[CHOOSE i \in 1..Len(UpperAscii) : UpperAscii[i] = c]
    ELSE c

\* char::to_uppercase, which may yield more than one character
to_uppercase(c) ==
    IF \E i \in 1..Len(LowerAscii) : LowerAscii[i] = c
    THEN <<UpperAscii[CHOOSE i \in 1..Len(LowerAscii) : LowerAscii[i] = c]>>
    ELSE IF c = "eacute" THEN <<"Eacute">>
    ELSE IF c = "sharp_s" THEN <<"S", "S">>
    ELSE <<c>>

\* str::eq_ignore_ascii_case
eq_ignore_ascii_case(a, b) ==
    /\ Len(a) = Len(b)
    /\ \A i \in 1..Len(a) : to_ascii_lowercase(a[i]) = to_ascii_lowercase(b[i])

\* fn capitalize_first
capitalize_first(s) ==
    IF s = <<>> THEN <<>> ELSE to_uppercase(Head(s)) \o Tail(s)

L_INBOX == <<"I", "N", "B", "O", "X">>
L_SENT == <<"S", "E", "N", "T">>
L_DRAFT == <<"D", "R", "A", "F", "T">>
L_TRASH == <<"T", "R", "A", "S", "H">>
L_SPAM == <<"S", "P", "A", "M">>
L_STARRED == <<"S", "T", "A", "R", "R", "E", "D">>
L_IMPORTANT == <<"I", "M", "P", "O", "R", "T", "A", "N", "T">>
L_UNREAD == <<"U", "N", "R", "E", "A", "D">>
L_CATEGORY_PERSONAL == 
    <<"C", "A", "T", "E", "G", "O", "R", "Y", "_", "P", "E", "R", "S", "O", "N", "A", "L">>
L_CATEGORY_SOCIAL == 
    <<"C", "A", "T", "E", "G", "O", "R", "Y", "_", "S", "O", "C", "I", "A", "L">>
L_CATEGORY_PROMOTIONS == 
    <<"C", "A", "T", "E", "G", "O", "R", "Y", "_", "P", "R", "O", "M", "O", "T", "I", "O", "N", "S">>
L_CATEGORY_UPDATES == 
    <<"C", "A", "T", "E", "G", "O", "R", "Y", "_", "U", "P", "D", "A", "T", "E", "S">>
L_CATEGORY_FORUMS == 
    <<"C", "A", "T", "E", "G", "O", "R", "Y", "_", "F", "O", "R", "U", "M", "S">>

SystemLabels ==
    {L_INBOX, L_SENT, L_DRAFT, L_TRASH, L_SPAM, L_STARRED, L_IMPORTANT,
     L_UNREAD, L_CATEGORY_PERSONAL, L_CATEGORY_SOCIAL,
     L_CATEGORY_PROMOTIONS, L_CATEGORY_UPDATES, L_CATEGORY_FORUMS}

is_system_label_short(label) ==
    label \in {L_INBOX, L_SENT, L_DRAFT, L_TRASH, L_SPAM, L_STARRED,
               L_IMPORTANT, L_UNREAD}
\* fn is_system_label: an exact match against the thirteen names
is_system_label(label) == label \in SystemLabels

(***************************************************************************)
(* api.rs: the label operations of Client                                  *)
(***************************************************************************)
N_empty == <<>>
N_w == <<"w">>
N_wk == <<"w", "k">>
N_Wk == <<"W", "k">>
N_wK == <<"w", "K">>
N_WK == <<"W", "K">>
N_kw == <<"k", "w">>
N_e == <<"eacute", "k">>
N_E == <<"Eacute", "k">>
N_inbox == <<"i", "n", "b", "o", "x">>

\* names a caller passes that are not system labels
CustomNames == {N_empty, N_w, N_wk, N_Wk, N_wK, N_WK, N_kw, N_e, N_E, N_inbox}
LabelNames == SystemLabels \cup CustomNames
\* display names of the user labels in the remote listing
RemoteNames == {N_wk, N_Wk, N_kw, N_E}

IdDigits == <<"1", "2", "3", "4", "5">>
UserId(i) == <<"L", IdDigits[i]>>
Label(id, name) == [id |-> id, name |-> name]

\* the labels a listing can hold: user labels, and the INBOX system label
RemoteLabels ==
    {Label(UserId(i), n) : i \in 1..MaxLabels, n \in RemoteNames}
    \cup {Label(L_INBOX, L_INBOX)}

\* the listings of /users/me/labels: no two labels share an id
Listings ==
    {l \in SeqsUpTo(RemoteLabels, MaxLabels) :
        \A i, j \in 1..Len(l) : l[i].id = l[j].id => i = j}

MsgLabelSets == {{}, {L_INBOX}, {L_SPAM}, {L_INBOX, UserId(1)}}

\* LabelList.labels is None when the response carries no "labels" field
LabelListOf(listing) == IF listing = <<>> THEN {None, Some(listing)}
                        ELSE {Some(listing)}

MatchIndexes(labels, name) ==
    {i \in 1..Len(labels) : eq_ignore_ascii_case(labels[i].name, name)}

\* the loop of get_or_create_label: the id of the first label whose name
\* equals `name` ignoring ASCII case
FirstMatch(labels, name) ==
    IF labels = None \/ MatchIndexes(Unwrap(labels), name) = {} THEN None
    ELSE LET l == Unwrap(labels)
             hits == MatchIndexes(l, name)
         IN  Some(l[CHOOSE i \in hits : \A j \in hits : i <= j].id)

\* find_label: the same loop, Ok(None) when nothing matches
find_label(labels, name) == FirstMatch(labels, name)

remove_label_id_lenient(hit, label) == IF hit = None THEN Some(label) ELSE hit
\* remove_label: find_label(label).await?.ok_or_else(|| "Label not found")
remove_label_id(hit, label) == hit

ModifyRequest(add, remove) == [add |-> add, remove |-> remove]
modify_labels_split(add, remove) ==
    <<ModifyRequest(add, <<>>), ModifyRequest(<<>>, remove)>>
\* modify_labels: one POST whose body carries addLabelIds and removeLabelIds
modify_labels(add, remove) == <<ModifyRequest(add, remove)>>

Range(q) == {q[i] : i \in 1..Len(q)}
\* what the remote store does with a modify request
ApplyModify(labels, req) == (labels \cup Range(req.add)) \ Range(req.remove)

\* an entry of the request log: the request and whether it succeeded
Sent(kind, name, add, remove, http_ok) ==
    [kind |-> kind, name |-> name, add |-> add, remove |-> remove,
     ok |-> http_ok]

NotFound(name) == [ok |-> FALSE, err |-> "Label not found", val |-> Some(name)]

\* A call on Client starts.  The operations keep no state between calls, so
\* a behaviour runs one call from an arbitrary remote state.
StartOp(o) ==
    /\ lpc = "idle"
    /\ ops < MaxCalls
    /\ op' = Some(o)
    /\ requests' = <<>>
    /\ lresult' = None
    /\ UNCHANGED <<remote_labels, msg_labels, ops, old_remote, old_msg,
                   called, resolved, authVars, msgVars>>

\* Client::archive
Archive ==
    /\ StartOp([kind |-> "archive", label |-> <<>>])
    /\ label_id' = None
    /\ pending' = modify_labels(<<>>, <<L_INBOX>>)
    /\ lpc' = "modify"

\* Client::mark_spam
MarkSpam ==
    /\ StartOp([kind |-> "mark_spam", label |-> <<>>])
    /\ label_id' = None
    /\ pending' = modify_labels(<<L_SPAM>>, <<L_INBOX>>)
    /\ lpc' = "modify"

\* Client::unspam
Unspam ==
    /\ StartOp([kind |-> "unspam", label |-> <<>>])
    /\ label_id' = None
    /\ pending' = modify_labels(<<L_INBOX>>, <<L_SPAM>>)
    /\ lpc' = "modify"

\* Client::add_label, up to its first request
add_label(label) ==
    /\ StartOp([kind |-> "add_label", label |-> label])
    /\ IF is_system_label(label)
       THEN /\ label_id' = Some(label)
            /\ pending' = modify_labels(<<label>>, <<>>)
            /\ lpc' = "modify"
       ELSE /\ label_id' = None
            /\ pending' = <<>>
            /\ lpc' = "list"

AddLabel == \E label \in LabelNames : add_label(label)

\* Client::remove_label, up to its first request
RemoveLabel ==
    \E label \in LabelNames :
        /\ StartOp([kind |-> "remove_label", label |-> label])
        /\ IF is_system_label(label)
           THEN /\ label_id' = Some(label)
                /\ pending' = modify_labels(<<>>, <<label>>)
                /\ lpc' = "modify"
           ELSE /\ label_id' = None
                /\ pending' = <<>>
                /\ lpc' = "list"

Fail(e) ==
    /\ lpc' = "done"
    /\ lresult' = Some(e)
    /\ ops' = ops + 1
    /\ pending' = <<>>

\* get_or_create_label / find_label: list_labels().await? and the loop
ListLabels ==
    /\ lpc = "list"
    /\ LET o == Unwrap(op)
       IN  \E http_ok \in BOOLEAN, labels \in LabelListOf(remote_labels) :
            /\ requests' = Append(requests, Sent("list", <<>>, <<>>, <<>>, http_ok))
            /\ IF ~http_ok
               THEN /\ Fail(Err("HTTP"))
                    /\ UNCHANGED label_id
               ELSE IF o.kind = "add_label"
               THEN LET hit == FirstMatch(labels, o.label)
                    IN  IF hit # None
                        THEN /\ label_id' = hit
                             /\ pending' = modify_labels(<<Unwrap(hit)>>, <<>>)
                             /\ lpc' = "modify"
                             /\ UNCHANGED <<lresult, ops>>
                        ELSE /\ lpc' = "create"
                             /\ UNCHANGED <<label_id, pending, lresult, ops>>
               ELSE LET hit == remove_label_id(find_label(labels, o.label), o.label)
                    IN  IF hit # None
                        THEN /\ label_id' = hit
                             /\ pending' = modify_labels(<<>>, <<Unwrap(hit)>>)
                             /\ lpc' = "modify"
                             /\ UNCHANGED <<lresult, ops>>
                        ELSE /\ Fail(NotFound(o.label))
                             /\ UNCHANGED label_id
    /\ UNCHANGED <<op, remote_labels, msg_labels, old_remote, old_msg,
                   called, resolved, authVars, msgVars>>

\* an id no label of the listing has
FreshId(listing) ==
    UserId(CHOOSE i \in 1..Len(IdDigits) :
              /\ \A k \in 1..Len(listing) : listing[k].id # UserId(i)
              /\ \A j \in 1..(i - 1) :
                    \E k \in 1..Len(listing) : listing[k].id = UserId(j))

\* get_or_create_label: create_label(name).await?, whose response is the
\* new label; the remote store lists it under the name submitted
CreateLabel ==
    /\ lpc = "create"
    /\ LET submitted == capitalize_first(Unwrap(op).label)
       IN  \E http_ok \in BOOLEAN :
            /\ requests' =
                  Append(requests, Sent("create", submitted, <<>>, <<>>, http_ok))
            /\ IF ~http_ok
               THEN /\ Fail(Err("HTTP"))
                    /\ UNCHANGED <<label_id, remote_labels>>
               ELSE LET id == FreshId(remote_labels)
                    IN  /\ remote_labels' = Append(remote_labels, Label(id, submitted))
                        /\ label_id' = Some(id)
                        /\ pending' = modify_labels(<<id>>, <<>>)
                        /\ lpc' = "modify"
                        /\ UNCHANGED <<lresult, ops>>
    /\ UNCHANGED <<op, msg_labels, old_remote, old_msg, called, resolved,
                   authVars, msgVars>>

\* modify_labels: post_json(endpoint, body).await
ModifyLabels ==
    /\ lpc = "modify"
    /\ pending # <<>>
    /\ \E http_ok \in BOOLEAN :
        /\ requests' =
              Append(requests, Sent("modify", <<>>, Head(pending).add,
                                    Head(pending).remove, http_ok))
        /\ IF ~http_ok
           THEN /\ Fail(Err("HTTP"))
                /\ UNCHANGED msg_labels
           ELSE /\ msg_labels' = ApplyModify(msg_labels, Head(pending))
                /\ pending' = Tail(pending)
                /\ IF Tail(pending) = <<>>
                   THEN /\ lpc' = "done"
                        /\ lresult' = Some(Ok("unit"))
                        /\ ops' = ops + 1
                   ELSE UNCHANGED <<lpc, lresult, ops>>
    /\ UNCHANGED <<op, remote_labels, label_id, old_remote, old_msg,
                   called, resolved, authVars, msgVars>>

LabelInit ==
    /\ AuthInit
    /\ MessageIdle
    /\ lpc = "idle"
    /\ op = None
    /\ remote_labels \in Listings
    /\ msg_labels \in MsgLabelSets
    /\ old_remote = remote_labels
    /\ old_msg = msg_labels
    /\ label_id = None
    /\ pending = <<>>
    /\ requests = <<>>
    /\ lresult = None
    /\ ops = 0
    /\ called = {}
    /\ resolved = {}

LabelNext ==
    \/ Archive
    \/ MarkSpam
    \/ Unspam
    \/ AddLabel
    \/ RemoveLabel
    \/ ListLabels
    \/ CreateLabel
    \/ ModifyLabels

LabelSpec == LabelInit /\ [][LabelNext]_vars

(***************************************************************************)
(* Claims about the label operations, checked under LabelSpec              *)
(***************************************************************************)
OpKind == Unwrap(op).kind
OpLabel == Unwrap(op).label
SentKinds == {requests[i].kind : i \in 1..Len(requests)}
ModifiesSent == {i \in 1..Len(requests) : requests[i].kind = "modify"}
\* the listing request of the operation was answered
ListAnswered == requests # <<>> /\ requests[1].kind = "list" /\ requests[1].ok

\* C6: for a name of the fixed system set, add_label and remove_label use the
\* name itself as the label id and send no listing and no creation request:
\* the one request is the modify call.
C6_SystemLabelsSkipResolution ==
    (op # None /\ OpKind \in {"add_label", "remove_label"}
        /\ OpLabel \in SystemLabels) =>
        /\ label_id = Some(OpLabel)
        /\ SentKinds \subseteq {"modify"}
        /\ Len(requests) <= 1
        /\ lpc = "done" => Len(requests) = 1
        /\ \A i \in 1..Len(requests) :
              /\ requests[i].add =
                    (IF OpKind = "add_label" THEN <<OpLabel>> ELSE <<>>)
              /\ requests[i].remove =
                    (IF OpKind = "add_label" THEN <<>> ELSE <<OpLabel>>)
        /\ remote_labels = old_remote

\* add_label with a category label has run to its end
C6_Witness ==
    /\ op = Some([kind |-> "add_label", label |-> L_CATEGORY_FORUMS])
    /\ lresult = Some(Ok("unit"))
    /\ L_CATEGORY_FORUMS \in msg_labels
    /\ L_CATEGORY_FORUMS \notin old_msg

\* two names are equal case-insensitively
EqIgnoreCase(a, b) ==
    /\ Len(a) = Len(b)
    /\ \A i \in 1..Len(a) : to_lowercase(a[i]) = to_lowercase(b[i])
CaseMatches(name) ==
    {i \in 1..Len(old_remote) : EqIgnoreCase(old_remote[i].name, name)}
AsciiCaseMatches(name) ==
    {i \in 1..Len(old_remote) :
        /\ Len(old_remote[i].name) = Len(name)
        /\ \A k \in 1..Len(name) :
              to_ascii_lowercase(old_remote[i].name[k]) = to_ascii_lowercase(name[k])}
First(S) == CHOOSE i \in S : \A j \in S : i <= j

\* C7: for a non-system name and a listing that holds a label whose display
\* name equals it case-insensitively, add_label resolves to the id of the
\* first such label in listing order and sends no create-label request.
C7_ReusesLabelIgnoringCase ==
    (op # None /\ OpKind = "add_label" /\ OpLabel \notin SystemLabels
        /\ ListAnswered /\ CaseMatches(OpLabel) # {}) =>
        /\ label_id = Some(old_remote[First(CaseMatches(OpLabel))].id)
        /\ "create" \notin SentKinds
        /\ lpc # "create"

\* What the code does hold to: the same with names compared ignoring the
\* case of ASCII letters only (str::eq_ignore_ascii_case).
C7_ReusesLabelIgnoringAsciiCase ==
    (op # None /\ OpKind = "add_label" /\ OpLabel \notin SystemLabels
        /\ ListAnswered /\ AsciiCaseMatches(OpLabel) # {}) =>
        /\ label_id = Some(old_remote[First(AsciiCaseMatches(OpLabel))].id)
        /\ "create" \notin SentKinds
        /\ lpc # "create"

\* C8: remove_label with a non-system name that no remote label matches
\* (ignoring ASCII case, hence every name without a case-insensitive match)
\* fails with the label-not-found error naming the label once the listing is
\* in, sends neither a create nor a modify request, and leaves the message's
\* labels and the remote labels as they were.
C8_RemoveMissingLabelFails ==
    (op # None /\ OpKind = "remove_label" /\ OpLabel \notin SystemLabels
        /\ AsciiCaseMatches(OpLabel) = {}) =>
        /\ SentKinds \subseteq {"list"}
        /\ Len(requests) <= 1
        /\ lpc \in {"list", "done"}
        /\ ListAnswered => /\ lpc = "done"
                           /\ lresult = Some(NotFound(OpLabel))
        /\ lpc = "done" => /\ Len(requests) = 1
                           /\ ~Unwrap(lresult).ok
        /\ label_id = None
        /\ msg_labels = old_msg
        /\ remote_labels = old_remote

\* the listing holds labels, none of them matches, the error names the label
C8_Witness ==
    /\ op = Some([kind |-> "remove_label", label |-> N_wK])
    /\ Len(old_remote) = 2
    /\ ListAnswered
    /\ lresult = Some(NotFound(N_wK))

\* the add and remove lists each operation hands to modify_labels
ExpectedAdd ==
    IF OpKind = "mark_spam" THEN <<L_SPAM>>
    ELSE IF OpKind = "unspam" THEN <<L_INBOX>>
    ELSE IF OpKind = "add_label" THEN <<Unwrap(label_id)>>
    ELSE <<>>
ExpectedRemove ==
    IF OpKind \in {"archive", "mark_spam"} THEN <<L_INBOX>>
    ELSE IF OpKind = "unspam" THEN <<L_SPAM>>
    ELSE IF OpKind = "remove_label" THEN <<Unwrap(label_id)>>
    ELSE <<>>

\* C9: every label mutation sends at most one modify request, exactly one
\* when it succeeds, carrying both its add list and its remove list; the
\* message's labels are either as before or have both halves applied.
C9_OneCombinedModify ==
    op # None =>
        /\ Cardinality(ModifiesSent) <= 1
        /\ \A i \in ModifiesSent :
              /\ requests[i].add = ExpectedAdd
              /\ requests[i].remove = ExpectedRemove
        /\ (lresult # None /\ Unwrap(lresult).ok) =>
              /\ Cardinality(ModifiesSent) = 1
              /\ msg_labels = (old_msg \cup Range(ExpectedAdd)) \ Range(ExpectedRemove)
        /\ (\A i \in ModifiesSent : ~requests[i].ok) => msg_labels = old_msg
        /\ msg_labels # old_msg =>
              msg_labels = (old_msg \cup Range(ExpectedAdd)) \ Range(ExpectedRemove)

\* mark_spam on a message in the inbox: SPAM added and INBOX removed at once
C9_Witness ==
    /\ op = Some([kind |-> "mark_spam", label |-> <<>>])
    /\ old_msg = {L_INBOX}
    /\ msg_labels = {L_SPAM}
    /\ lresult = Some(Ok("unit"))

(***************************************************************************)
(* api.rs: Message                                                         *)
(***************************************************************************)
H_From == <<"F", "r", "o", "m">>
H_FROM == <<"F", "R", "O", "M">>
H_from == <<"f", "r", "o", "m">>
H_To == <<"T", "o">>
H_X == <<"X", "-", "I", "d">>

\* header field names are ASCII (RFC 5322)
HeaderNames == {H_From, H_FROM, H_To}
LookupNames == {H_From, H_from, H_To, H_X}
HeaderValues == {"a", "b"}
Header == [name : HeaderNames, value : HeaderValues]

\* Payload, as far as get_header reads it: headers: Option<Vec<Header>>
Payloads == [headers : {None} \cup {Some(h) : h \in SeqsUpTo(Header, MaxHeaders)}]
\* Message.payload: Option<Payload>
Messages == {None} \cup {Some(p) : p \in Payloads}

get_header_last(msg, name) ==
    IF msg = None \/ Unwrap(msg).headers = None THEN None
    ELSE LET hs == Unwrap(Unwrap(msg).headers)
             hits == {i \in 1..Len(hs) : eq_ignore_ascii_case(hs[i].name, name)}
         IN  IF hits = {} THEN None
             ELSE Some(hs[CHOOSE i \in hits : \A j \in hits : j <= i].value)
\* Message::get_header
get_header(msg, name) ==
    IF msg = None \/ Unwrap(msg).headers = None THEN None
    ELSE LET hs == Unwrap(Unwrap(msg).headers)
             hits == {i \in 1..Len(hs) : eq_ignore_ascii_case(hs[i].name, name)}
         IN  IF hits = {} THEN None
             ELSE Some(hs[CHOOSE i \in hits : \A j \in hits : i <= j].value)

\* a caller looks a header up
GetHeader ==
    /\ \E name \in LookupNames :
        /\ lookup' = Some(name)
        /\ found' = Some(get_header(message, name))
    /\ UNCHANGED <<message, body_text, typed, normalized, authVars, labelVars>>

MessageInit ==
    /\ AuthInit
    /\ LabelIdle
    /\ message \in Messages
    /\ lookup = None
    /\ found = None
    /\ body_text = None
    /\ typed = None
    /\ normalized = None

MessageNext == GetHeader

MessageSpec == MessageInit /\ [][MessageNext]_vars

(***************************************************************************)
(* Claims about Message, checked under MessageSpec                         *)
(***************************************************************************)
HeaderList ==
    IF message = None \/ Unwrap(message).headers = None THEN <<>>
    ELSE Unwrap(Unwrap(message).headers)
HeaderMatches ==
    {i \in 1..Len(HeaderList) : EqIgnoreCase(HeaderList[i].name, Unwrap(lookup))}

\* C10: get_header returns the value of the first header in list order whose
\* name equals the lookup name case-insensitively, and None when the message
\* has no payload, no header list or no matching header.
C10_FirstHeaderIgnoringCase ==
    found # None =>
        Unwrap(found) = (IF HeaderMatches = {} THEN None
                         ELSE Some(HeaderList[First(HeaderMatches)].value))

\* headers [("From","a"),("FROM","b")], looked up as "from": "a"
C10_Witness ==
    /\ HeaderList = <<[name |-> H_From, value |-> "a"],
                      [name |-> H_FROM, value |-> "b"]>>
    /\ lookup = Some(H_from)
    /\ found = Some(Some("a"))

(***************************************************************************)
(* api.rs: the body tree of a Message and get_body_text                    *)
(***************************************************************************)
\* Inline data as the API sends it, base64url without padding:
D_a == "YQ"         \* the text "a"
D_b == "Yg"         \* the text "b"
D_ff == "_w"        \* the byte 0xFF, which is not UTF-8
D_pad == "YQ=="     \* padded, which the no-padding engine rejects
InlineData == {D_a, D_b, D_ff, D_pad}

\* BASE64_URL_SAFE_NO_PAD.decode(data): Ok(bytes) or Err
Base64Decode(data) ==
    IF data = D_a THEN Some(<<97>>)
    ELSE IF data = D_b THEN Some(<<98>>)
    ELSE IF data = D_ff THEN Some(<<255>>)
    ELSE None

\* String::from_utf8(bytes).ok(), for bytes that are one-byte characters
from_utf8(bytes) ==
    IF \A i \in 1..Len(bytes) : bytes[i] < 128
    THEN Some([i \in 1..Len(bytes) |->
                 IF bytes[i] = 97 THEN "a" ELSE IF bytes[i] = 98 THEN "b" ELSE "?"])
    ELSE None

Body(data) == [data |-> data]
Part(mime_type, body, parts) ==
    [mime_type |-> mime_type, body |-> body, parts |-> parts]

\* what a part can be, its own children aside
PartKinds ==
    {[mime_type |-> "text/plain", body |-> Some(Body(Some(d)))] : d \in InlineData}
    \cup {[mime_type |-> "text/plain", body |-> Some(Body(None))],
          [mime_type |-> "text/html", body |-> Some(Body(Some(D_b)))],
          [mime_type |-> "multipart/mixed", body |-> None]}

RECURSIVE PartLists(_)
\* the lists of parts that hold exactly n parts, nested ones included; a
\* part without children has parts: None
PartLists(n) ==
    IF n = 0 THEN {<<>>}
    ELSE UNION {
        {<<Part(k.mime_type, k.body, IF c = <<>> THEN None ELSE Some(c))>> \o rest :
            k \in PartKinds, c \in PartLists(m - 1), rest \in PartLists(n - m)}
        : m \in 1..n}

\* the lists of parts that hold at most n parts
PartTrees(n) == UNION {PartLists(k) : k \in 0..n}

\* Payload.body of the message itself
TopBodies == {None, Some(Body(None)), Some(Body(Some(D_a))),
              Some(Body(Some(D_ff))), Some(Body(Some(D_pad)))}

BodyPayloads(n) ==
    [headers : {None}, body : TopBodies,
     parts : {None} \cup {Some(t) : t \in PartTrees(n)}]
BodyMessages(n) == {None} \cup {Some(p) : p \in BodyPayloads(n)}

is_text_any(mime_type) == mime_type \in {"text/plain", "text/html"}
\* part.mime_type == "text/plain"
is_text_plain(mime_type) == mime_type = "text/plain"

\* What a search returns: the text, and how many parts it looked at.
Found(text, read) == [text |-> text, read |-> read]

RECURSIVE find_text_part(_)
\* fn find_text_part
find_text_part(parts) ==
    IF parts = <<>> THEN Found(None, 0)
    ELSE LET part == Head(parts)
             data == IF is_text_plain(part.mime_type) /\ part.body # None
                     THEN Unwrap(part.body).data
                     ELSE None
             decoded == IF data = None THEN None
                        ELSE Base64Decode(Unwrap(data))
         IN  IF decoded # None
             THEN Found(from_utf8(Unwrap(decoded)), 1)
             ELSE LET nested == IF part.parts = None THEN Found(None, 0)
                                ELSE find_text_part(Unwrap(part.parts))
                  IN  IF nested.text # None
                      THEN Found(nested.text, 1 + nested.read)
                      ELSE LET rest == find_text_part(Tail(parts))
                           IN  Found(rest.text, 1 + nested.read + rest.read)

get_body_text_parts_first(msg) ==
    IF msg = None THEN Found(None, 0)
    ELSE LET payload == Unwrap(msg)
             inner == IF payload.parts = None THEN Found(None, 0)
                      ELSE find_text_part(Unwrap(payload.parts))
             data == IF payload.body = None THEN None
                     ELSE Unwrap(payload.body).data
             decoded == IF data = None THEN None
                        ELSE Base64Decode(Unwrap(data))
         IN  IF inner.text # None THEN inner
             ELSE IF decoded # None
             THEN Found(from_utf8(Unwrap(decoded)), inner.read)
             ELSE inner
\* Message::get_body_text
get_body_text(msg) ==
    IF msg = None THEN Found(None, 0)
    ELSE LET payload == Unwrap(msg)
             data == IF payload.body = None THEN None
                     ELSE Unwrap(payload.body).data
             decoded == IF data = None THEN None
                        ELSE Base64Decode(Unwrap(data))
         IN  IF decoded # None
             THEN Found(from_utf8(Unwrap(decoded)), 0)
             ELSE IF payload.parts # None
             THEN find_text_part(Unwrap(payload.parts))
             ELSE Found(None, 0)

\* a caller asks for the body text
GetBodyText ==
    /\ body_text = None
    /\ body_text' = Some(get_body_text(message))
    /\ UNCHANGED <<message, lookup, found, typed, normalized, authVars,
                   labelVars>>

BodyInit ==
    /\ AuthInit
    /\ LabelIdle
    /\ message \in BodyMessages(MaxParts)
    /\ lookup = None
    /\ found = None
    /\ body_text = None
    /\ typed = None
    /\ normalized = None

BodyNext == GetBodyText

BodySpec == BodyInit /\ [][BodyNext]_vars

(***************************************************************************)
(* Claims about get_body_text                                              *)
(***************************************************************************)
RECURSIVE Preorder(_)
\* the parts of a list in depth-first pre-order
Preorder(parts) ==
    IF parts = <<>> THEN <<>>
    ELSE <<Head(parts)>>
         \o (IF Head(parts).parts = None THEN <<>>
             ELSE Preorder(Unwrap(Head(parts).parts)))
         \o Preorder(Tail(parts))

MessageParts ==
    IF message = None \/ Unwrap(message).parts = None THEN <<>>
    ELSE Preorder(Unwrap(Unwrap(message).parts))

DirectData ==
    IF message = None \/ Unwrap(message).body = None THEN None
    ELSE Unwrap(Unwrap(message).body).data

PartData(part) == IF part.body = None THEN None ELSE Unwrap(part.body).data

DecodesValidly(data) ==
    /\ Base64Decode(data) # None
    /\ from_utf8(Unwrap(Base64Decode(data))) # None

DecodedText(data) == from_utf8(Unwrap(Base64Decode(data)))

AllPartsDecode ==
    \A i \in 1..Len(MessageParts) :
        PartData(MessageParts[i]) # None
            => DecodesValidly(Unwrap(PartData(MessageParts[i])))

IsPlainWithData(part) ==
    part.mime_type = "text/plain" /\ PartData(part) # None

PlainWithData == SelectSeq(MessageParts, IsPlainWithData)

\* C11: for a message without direct top-level data whose inline payloads
\* all decode, get_body_text returns the decoded content of the first part
\* in depth-first pre-order that is exactly text/plain and carries data,
\* and None when there is no such part.
C11_FirstPlainPartInPreorder ==
    (body_text # None /\ DirectData = None /\ AllPartsDecode)
        => Unwrap(body_text).text =
               IF PlainWithData = <<>> THEN None
               ELSE DecodedText(Unwrap(PartData(Head(PlainWithData))))

\* a text/html part, then a text/plain part nested in a multipart sibling
C11_Witness ==
    /\ message # None
    /\ DirectData = None
    /\ Unwrap(message).parts =
           Some(<<Part("text/html", Some(Body(Some(D_b))), None),
                  Part("multipart/mixed", None,
                       Some(<<Part("text/plain", Some(Body(Some(D_a))),
                                   None)>>))>>)
    /\ body_text # None
    /\ Unwrap(body_text).text = Some(<<"a">>)

IsValidPlain(part) ==
    IsPlainWithData(part) /\ DecodesValidly(Unwrap(PartData(part)))

ValidPlain == SelectSeq(MessageParts, IsValidPlain)

\* C12: a part whose data fails to decode, as base64url or as text, is
\* skipped and the search goes on: the first text/plain part whose data
\* decodes validly is returned.
C12_DecodeFailureContinues ==
    (body_text # None /\ DirectData = None /\ ValidPlain # <<>>)
        => Unwrap(body_text).text =
               DecodedText(Unwrap(PartData(Head(ValidPlain))))

\* C13 as stated: whenever the top-level body carries inline data, the
\* parts list is never inspected, whatever it contains.
C13_DirectDataNeverReadsParts ==
    (body_text # None /\ DirectData # None)
        => Unwrap(body_text).read = 0

\* C13: when the top-level inline data is valid base64url, the parts list
\* is never inspected and the decoded text is returned when it is valid
\* text; top-level data that is not valid base64url is skipped, and the
\* result is the one for the same message without a top-level body.
C13_DecodableDirectDataNeverReadsParts ==
    (body_text # None /\ DirectData # None)
        => IF Base64Decode(Unwrap(DirectData)) # None
           THEN /\ Unwrap(body_text).read = 0
                /\ DecodesValidly(Unwrap(DirectData))
                       => Unwrap(body_text).text =
                              DecodedText(Unwrap(DirectData))
           ELSE Unwrap(body_text) =
                    get_body_text(Some([Unwrap(message) EXCEPT !.body = None]))

\* direct data "a" over a parts list that holds a text/plain "b"
C13_Witness ==
    /\ DirectData = Some(D_a)
    /\ \E i \in 1..Len(MessageParts) :
           /\ IsPlainWithData(MessageParts[i])
           /\ PartData(MessageParts[i]) = Some(D_b)
    /\ body_text = Some(Found(Some(<<"a">>), 0))

(***************************************************************************)
(* Claim about the loopback listener of login                              *)
(***************************************************************************)
\* C14: during a login the listener accepts exactly one connection and is
\* released on every way out of wait_for_callback, before the token
\* exchange starts; the success page is written only after the code and
\* the state were found and the state check passed.
C14_OneConnectionThenReleased ==
    /\ accepted <= 1
    /\ callback # None => (accepted = 1 /\ listener = "dropped")
    /\ (pc = "exchange_code" \/ exchange_calls > 0)
           => (accepted = 1 /\ listener = "dropped")
    /\ (cmd = "login" /\ pc = "done" /\ result # None
            /\ ~Unwrap(result).ok /\ Unwrap(result).err \in CallbackErrors)
           => (accepted = 1 /\ listener = "dropped" /\ exchange_calls = 0)
    /\ html_sent => /\ callback # None
                    /\ CallbackCode # None
                    /\ CallbackState = csrf_token

\* the callback passed the state check, the page was written, and the
\* exchange is about to start with the listener gone
C14_Witness ==
    /\ pc = "exchange_code"
    /\ exchange_calls = 0
    /\ html_sent
    /\ accepted = 1
    /\ listener = "dropped"

(***************************************************************************)
(* main.rs: normalize_label                                                *)
(***************************************************************************)
\* the spellings normalize_label matches on
A_inbox == <<"i", "n", "b", "o", "x">>
A_sent == <<"s", "e", "n", "t">>
A_trash == <<"t", "r", "a", "s", "h">>
A_spam == <<"s", "p", "a", "m">>
A_starred == <<"s", "t", "a", "r", "r", "e", "d">>
A_unread == <<"u", "n", "r", "e", "a", "d">>
A_important == <<"i", "m", "p", "o", "r", "t", "a", "n", "t">>
A_drafts == <<"d", "r", "a", "f", "t", "s">>
A_draft == <<"d", "r", "a", "f", "t">>
A_all == <<"a", "l", "l">>
A_primary == <<"p", "r", "i", "m", "a", "r", "y">>
A_social == <<"s", "o", "c", "i", "a", "l">>
A_promotions == <<"p", "r", "o", "m", "o", "t", "i", "o", "n", "s">>
A_updates == <<"u", "p", "d", "a", "t", "e", "s">>
A_forums == <<"f", "o", "r", "u", "m", "s">>
Aliases ==
    {A_inbox, A_sent, A_trash, A_spam, A_starred,
     A_unread, A_important, A_drafts, A_draft, A_all,
     A_primary, A_social, A_promotions, A_updates, A_forums}

\* str::to_lowercase
str_to_lowercase(s) == [i \in 1..Len(s) |-> to_lowercase(s[i])]

\* fn normalize_label
normalize_label(label) ==
    LET other == str_to_lowercase(label)
    IN  IF other = A_inbox THEN L_INBOX
        ELSE IF other = A_sent THEN L_SENT
        ELSE IF other = A_trash THEN L_TRASH
        ELSE IF other = A_spam THEN L_SPAM
        ELSE IF other = A_starred THEN L_STARRED
        ELSE IF other = A_unread THEN L_UNREAD
        ELSE IF other = A_important THEN L_IMPORTANT
        ELSE IF other \in {A_drafts, A_draft} THEN L_DRAFT
        ELSE IF other = A_all THEN <<>>
        ELSE IF other = A_primary THEN L_CATEGORY_PERSONAL
        ELSE IF other = A_social THEN L_CATEGORY_SOCIAL
        ELSE IF other = A_promotions THEN L_CATEGORY_PROMOTIONS
        ELSE IF other = A_updates THEN L_CATEGORY_UPDATES
        ELSE IF other = A_forums THEN L_CATEGORY_FORUMS
        ELSE other

\* what a user may type after --label: an alias in lower case, capitalised
\* or in capitals, or a custom name of up to MaxTyped characters
TypedChars == {"w", "W", "k", "eacute", "Eacute"}
AllCapitals(s) == [i \in 1..Len(s) |-> Head(to_uppercase(s[i]))]
TypedLabels ==
    UNION {{a, capitalize_first(a), AllCapitals(a)} : a \in Aliases}
    \cup SeqsUpTo(TypedChars, MaxTyped)

\* a command that takes a label: let label_id = normalize_label(&label)
Normalize ==
    /\ typed # None
    /\ normalized = None
    /\ normalized' = Some(normalize_label(Unwrap(typed)))
    /\ UNCHANGED <<message, lookup, found, body_text, typed, authVars,
                   labelVars>>

NormalizeInit ==
    /\ AuthInit
    /\ LabelIdle
    /\ message = None
    /\ lookup = None
    /\ found = None
    /\ body_text = None
    /\ typed \in {Some(l) : l \in TypedLabels}
    /\ normalized = None

NormalizeNext == Normalize

NormalizeSpec == NormalizeInit /\ [][NormalizeNext]_vars

\* C15: a label that is not one of the recognised aliases is kept as it
\* was typed, letter case included.
C15_CustomLabelsKeptAsTyped ==
    (normalized # None /\ str_to_lowercase(Unwrap(typed)) \notin Aliases)
        => Unwrap(normalized) = Unwrap(typed)

\* the aliases themselves map to the API ids whatever their case
C15_AliasesMapToIds ==
    (normalized # None /\ str_to_lowercase(Unwrap(typed)) \in Aliases)
        => Unwrap(normalized) \in SystemLabels \cup {<<>>}

(***************************************************************************)
(* api.rs: add_label calls one after the other on one Client               *)
(***************************************************************************)
\* the names the calls of a sequence pass
SeqNames == {N_e, N_E, N_wk, N_Wk, L_INBOX}

AddLabelSeq == \E label \in SeqNames : add_label(label)

\* add_label returns to its caller, which may call again
Return ==
    /\ lpc = "done"
    /\ ops < MaxCalls
    /\ lpc' = "idle"
    /\ IF Unwrap(op).kind = "add_label" /\ ~is_system_label(Unwrap(op).label)
       THEN /\ called' = called \cup {Unwrap(op).label}
            /\ resolved' = resolved \cup label_id
       ELSE UNCHANGED <<called, resolved>>
    /\ UNCHANGED <<op, remote_labels, msg_labels, label_id, pending, requests,
                   lresult, ops, old_remote, old_msg, authVars, msgVars>>

LabelSeqInit ==
    /\ AuthInit
    /\ MessageIdle
    /\ lpc = "idle"
    /\ op = None
    /\ remote_labels \in {l \in Listings : Len(l) <= 1}
    /\ msg_labels = {}
    /\ old_remote = remote_labels
    /\ old_msg = msg_labels
    /\ label_id = None
    /\ pending = <<>>
    /\ requests = <<>>
    /\ lresult = None
    /\ ops = 0
    /\ called = {}
    /\ resolved = {}

LabelSeqNext ==
    \/ AddLabelSeq
    \/ ListLabels
    \/ CreateLabel
    \/ ModifyLabels
    \/ Return

LabelSeqSpec == LabelSeqInit /\ [][LabelSeqNext]_vars

\* custom names of the calls so far, the running one included
NamesCalled ==
    called \cup (IF op # None /\ ~is_system_label(Unwrap(op).label)
                 THEN {Unwrap(op).label} ELSE {})

\* ids resolved by the calls so far, the running one included
IdsResolved ==
    resolved \cup (IF op # None /\ ~is_system_label(Unwrap(op).label)
                   THEN label_id ELSE {})

\* C16: after any sequence of add_label calls whose custom names are equal
\* ignoring case, at most one label was created and every call resolved
\* to the same label id.
C16_GetOrCreateIdempotent ==
    (\A a, b \in NamesCalled : EqIgnoreCase(a, b))
        => /\ Len(remote_labels) <= Len(old_remote) + 1
           /\ Cardinality(IdsResolved) <= 1

\* the same for names that are equal ignoring the case of ASCII letters
C16_IdempotentIgnoringAsciiCase ==
    (\A a, b \in NamesCalled : eq_ignore_ascii_case(a, b)
                                 /\ eq_ignore_ascii_case(capitalize_first(a), b))
        => /\ Len(remote_labels) <= Len(old_remote) + 1
           /\ Cardinality(IdsResolved) <= 1

====
